---- MODULE Spec2Model ----
(***************************************************************************)
(* Luhmann-style identifiers of the zettel repository                      *)
(* (crates/zettel-core/src/id.rs): IdComponent, Id, the scanner            *)
(* parse_id_string, the alphabetic incrementer increment_alpha_string and  *)
(* the availability searches of IdManager.                                 *)
(*                                                                         *)
(* Strings are sequences of character codes (ASCII), so that the scanner,  *)
(* the decimal rendering of numbers and the letter arithmetic of the       *)
(* incrementer are computed as the code computes them.                     *)
(***************************************************************************)
EXTENDS Integers, Sequences, FiniteSets, TLC

VARIABLES
    id,         \* the identifier the program currently holds (an Id: its components)
    last,       \* the last Id / IdComponent operation: [op, arg, res]
    steps,      \* number of operations applied so far (bounded by MaxSteps)
    input,      \* the string handed to the pure functions (scanner, incrementer)
    existing,   \* the identifier strings the existence checker's store holds
    existsAll,  \* TRUE when the existence checker is the closure |_| true
    pc,         \* "idle" | "probe" | "done": position of the running availability search
    call,       \* [op, start]: the running (or last) availability search and its argument
    candidate,  \* the local variable `candidate` of the running search
    probes,     \* the probes of the running search, in order: [asked, answer]
    mutated,    \* TRUE when the store changed while the search was running
    ret,        \* what the search returned: a result record
    config      \* the IdConfig of the manager: [match_rule, separator, allow_unicode]

vars ==
    <<id, last, steps, input, existing, existsAll, pc, call, candidate, probes, mutated, ret,
      config>>

(***************************************************************************)
(* Bounds of the model.                                                    *)
(***************************************************************************)
\* u32::MAX, scaled down: TLC's integers stop at 2^31 - 1. Every comparison and
\* every parse of the model goes through this name.
U32_MAX == 11
\* Longest alphabetic string the incrementer is started on.
MaxAlphaLen == 2
\* Longest string handed to the scanner.
MaxInputLen == 4
\* Operations applied to the current identifier in one behaviour.
MaxSteps == 4
\* Longest alphabetic component from which an availability search still advances.
MaxWalkAlphaLen == 1
\* Longest filename handed to extract_from_filename.
MaxFilenameLen == 4

(***************************************************************************)
(* Characters.                                                             *)
(***************************************************************************)
Char_0 == 48
Char_9 == 57
Char_a == 97
Char_z == 122
Char_b == 98
Char_c == 99
Char_A == 65
Char_dash == 45
Char_space == 32
\* U+00E9, a letter outside ASCII.
Char_eacute == 233
Char_Z == 90
Char_dot == 46

is_ascii_digit(c) == c >= Char_0 /\ c <= Char_9
is_ascii_lowercase(c) == c >= Char_a /\ c <= Char_z

D(n) == Char_0 + n

\* All strings over the character set cs of length lo..hi.
RECURSIVE StringsOfLen(_, _)
StringsOfLen(cs, n) ==
    IF n = 0 THEN {<<>>}
    ELSE {Append(s, c) : s \in StringsOfLen(cs, n - 1), c \in cs}

Strings(cs, lo, hi) == UNION {StringsOfLen(cs, n) : n \in lo..hi}

(***************************************************************************)
(* Results: Ok(v) | Err(e), and for Option / Vec results None | List.      *)
(***************************************************************************)
Ok(v) == [tag |-> "Ok", err |-> "", val |-> v]
Err(e) == [tag |-> "Err", err |-> e, val |-> <<>>]
None == [tag |-> "None", err |-> "", val |-> <<>>]
List(l) == [tag |-> "List", err |-> "", val |-> l]
Bool(b) == [tag |-> "Bool", err |-> "", val |-> b]

(***************************************************************************)
(* increment_alpha_string (id.rs 495-526)                                  *)
(***************************************************************************)
\* The right-to-left loop: position i (1-based) is next, carry as in the code.
RECURSIVE increment_loop(_, _, _)
increment_loop(chars, i, carry) ==
    IF i = 0 \/ ~carry THEN [chars |-> chars, carry |-> carry]
    ELSE IF chars[i] = Char_z
         THEN increment_loop([chars EXCEPT ![i] = Char_a], i - 1, TRUE)
         ELSE increment_loop([chars EXCEPT ![i] = chars[i] + 1], i - 1, FALSE)

\* A plausible slip: the carry out of the first position is dropped.
increment_alpha_string_dropcarry(s) ==
    IF s = <<>> THEN Err("InvalidComponent")
    ELSE Ok(increment_loop(s, Len(s), TRUE).chars)

increment_alpha_string(s) ==
    IF s = <<>> THEN Err("InvalidComponent")
    ELSE LET r == increment_loop(s, Len(s), TRUE)
         IN  Ok(IF r.carry THEN <<Char_a>> \o r.chars ELSE r.chars)

(***************************************************************************)
(* IdComponent (id.rs 35-102)                                              *)
(***************************************************************************)
Numeric(n) == [kind |-> "Numeric", num |-> n, str |-> <<>>]
Alpha(s) == [kind |-> "Alpha", num |-> 0, str |-> s]

is_numeric(c) == c.kind = "Numeric"
is_alpha(c) == c.kind = "Alpha"

\* A plausible slip: only the first character is tested.
IdComponent_alpha_firstonly(value) ==
    IF value = <<>> THEN Err("InvalidComponent")
    ELSE IF ~is_ascii_lowercase(value[1])
         THEN Err("InvalidComponent")
         ELSE Ok(Alpha(value))


IdComponent_alpha(value) ==
    IF value = <<>> THEN Err("InvalidComponent")
    ELSE IF ~(\A i \in 1..Len(value) : is_ascii_lowercase(value[i]))
         THEN Err("InvalidComponent")
         ELSE Ok(Alpha(value))

\* A plausible slip: the maximum wraps to zero instead of failing.
IdComponent_increment_wrap(c) ==
    IF is_numeric(c)
    THEN Ok(Numeric((c.num + 1) % (U32_MAX + 1)))
    ELSE LET r == increment_alpha_string(c.str)
         IN  IF r.tag = "Err" THEN r ELSE Ok(Alpha(r.val))

IdComponent_increment(c) ==
    IF is_numeric(c)
    THEN IF c.num = U32_MAX THEN Err("Overflow") ELSE Ok(Numeric(c.num + 1))
    ELSE LET r == increment_alpha_string(c.str)
         IN  IF r.tag = "Err" THEN r ELSE Ok(Alpha(r.val))

\* A plausible slip: the digits come out least significant first.
RECURSIVE Decimal_reversed(_)
Decimal_reversed(n) ==
    IF n < 10 THEN <<D(n)>> ELSE <<D(n % 10)>> \o Decimal_reversed(n \div 10)


\* u32's Display: the decimal digits of n, no leading zero.
RECURSIVE Decimal(_)
Decimal(n) == IF n < 10 THEN <<D(n)>> ELSE Append(Decimal(n \div 10), D(n % 10))

as_str(c) == IF is_numeric(c) THEN Decimal(c.num) ELSE c.str

(***************************************************************************)
(* Id (id.rs 132-304)                                                      *)
(***************************************************************************)
\* A plausible slip: only the class of the first component is tested.
Id_new_firstonly(components) ==
    IF components = <<>> THEN Err("EmptyId")
    ELSE IF ~is_numeric(components[1])
         THEN Err("InvalidFormat")
         ELSE Ok(components)


Id_new(components) ==
    IF components = <<>> THEN Err("EmptyId")
    ELSE IF \E i \in 1..Len(components) :
                \/ ((i - 1) % 2 = 0 /\ ~is_numeric(components[i]))
                \/ ((i - 1) % 2 # 0 /\ ~is_alpha(components[i]))
         THEN Err("InvalidFormat")
         ELSE Ok(components)

Id_from_number(n) == <<Numeric(n)>>

depth(x) == Len(x)

\* A plausible slip: the guard is off by one, so a root gets an empty parent.
Id_parent_offbyone(x) ==
    IF Len(x) < 1 THEN None ELSE Ok(SubSeq(x, 1, Len(x) - 1))

Id_parent(x) ==
    IF Len(x) <= 1 THEN None ELSE Ok(SubSeq(x, 1, Len(x) - 1))

\* A plausible slip: the whole identifier is rebuilt from the incremented component.
next_sibling_truncate(x) ==
    IF x = <<>> THEN Err("EmptyId")
    ELSE LET r == IdComponent_increment(x[Len(x)])
         IN  IF r.tag = "Err" THEN r ELSE Ok(<<r.val>>)

next_sibling(x) ==
    IF x = <<>> THEN Err("EmptyId")
    ELSE LET r == IdComponent_increment(x[Len(x)])
         IN  IF r.tag = "Err" THEN r ELSE Ok([x EXCEPT ![Len(x)] = r.val])

\* A plausible slip: the new component overwrites the last one instead of being
\* pushed after it.
first_child_overwrite(x) ==
    [x EXCEPT ![Len(x)] = IF Len(x) % 2 = 0 THEN Numeric(1) ELSE Alpha(<<Char_a>>)]

\* A plausible slip: the parity test of the appended component is inverted.
first_child_flipped(x) ==
    Append(x, IF Len(x) % 2 = 0 THEN Alpha(<<Char_a>>) ELSE Numeric(1))

first_child(x) ==
    Append(x, IF Len(x) % 2 = 0 THEN Numeric(1) ELSE Alpha(<<Char_a>>))

\* iter().zip(iter()).all(|(a, b)| a == b): the pairs up to the shorter length.
zip_all_eq(a, b) ==
    \A i \in 1..(IF Len(a) < Len(b) THEN Len(a) ELSE Len(b)) : a[i] = b[i]

\* A plausible slip: the length guard rejects only the longer identifier.
is_ancestor_of_weakguard(x, other) ==
    IF Len(x) > Len(other) THEN FALSE ELSE zip_all_eq(x, other)

is_ancestor_of(x, other) ==
    IF Len(x) >= Len(other) THEN FALSE ELSE zip_all_eq(x, other)

is_descendant_of(x, other) == is_ancestor_of(other, x)

\* A plausible slip: the slices keep the last component.
is_sibling_of_whole(x, other) ==
    IF Len(x) # Len(other) THEN FALSE
    ELSE IF Len(x) <= 1 THEN Len(x) = 0 \/ x = other
    ELSE zip_all_eq(x, other)

is_sibling_of(x, other) ==
    IF Len(x) # Len(other) THEN FALSE
    ELSE IF Len(x) <= 1 THEN TRUE
    ELSE zip_all_eq(SubSeq(x, 1, Len(x) - 1), SubSeq(other, 1, Len(other) - 1))

\* A plausible slip: the range runs to the identifier's own depth.
ancestors_inclusive(x) == [i \in 1..Len(x) |-> SubSeq(x, 1, i)]


ancestors(x) == [i \in 1..(Len(x) - 1) |-> SubSeq(x, 1, i)]

\* String's Ord: lexicographic on the bytes, a proper prefix first.
RECURSIVE String_cmp(_, _)
String_cmp(a, b) ==
    IF a = <<>> THEN (IF b = <<>> THEN "Equal" ELSE "Less")
    ELSE IF b = <<>> THEN "Greater"
    ELSE IF a[1] < b[1] THEN "Less"
    ELSE IF a[1] > b[1] THEN "Greater"
    ELSE String_cmp(Tail(a), Tail(b))

\* #[derive(PartialOrd, Ord)] on IdComponent: the variants in declaration order
\* (Numeric before Alpha), then the payloads (u32 by value, String as above).
IdComponent_cmp(c, d) ==
    IF is_numeric(c) /\ is_alpha(d) THEN "Less"
    ELSE IF is_alpha(c) /\ is_numeric(d) THEN "Greater"
    ELSE IF is_numeric(c)
         THEN (IF c.num < d.num THEN "Less"
               ELSE IF c.num > d.num THEN "Greater" ELSE "Equal")
         ELSE String_cmp(c.str, d.str)

\* #[derive(PartialOrd, Ord)] on Id: Vec's Ord on `components`, lexicographic by
\* component, a proper prefix first.
RECURSIVE Id_cmp(_, _)
Id_cmp(x, y) ==
    IF x = <<>> THEN (IF y = <<>> THEN "Equal" ELSE "Less")
    ELSE IF y = <<>> THEN "Greater"
    ELSE IF IdComponent_cmp(x[1], y[1]) # "Equal" THEN IdComponent_cmp(x[1], y[1])
    ELSE Id_cmp(Tail(x), Tail(y))


\* A plausible slip: the components are joined with a separator.
RECURSIVE to_string_joined(_)
to_string_joined(x) ==
    IF x = <<>> THEN <<>>
    ELSE IF Len(x) = 1 THEN as_str(x[1])
    ELSE as_str(x[1]) \o <<Char_dash>> \o to_string_joined(Tail(x))

RECURSIVE to_string(_)
to_string(x) == IF x = <<>> THEN <<>> ELSE as_str(x[1]) \o to_string(Tail(x))

(***************************************************************************)
(* parse_id_string and Id::parse (id.rs 174-182, 438-492)                  *)
(***************************************************************************)
\* A plausible slip: the accumulation wraps around instead of failing.
RECURSIVE parse_u32_from_wrapping(_, _, _)
parse_u32_from_wrapping(current, i, acc) ==
    IF i > Len(current) THEN Ok(acc)
    ELSE IF ~is_ascii_digit(current[i]) THEN Err("ParseError")
    ELSE parse_u32_from_wrapping(current, i + 1,
             (acc * 10 + (current[i] - Char_0)) % (U32_MAX + 1))


\* str::parse::<u32>() on the run `current` (digits and lowercase letters only can
\* reach it): every character a digit, and the value, accumulated with checked
\* arithmetic, at most u32::MAX.
RECURSIVE parse_u32_from(_, _, _)
parse_u32_from(current, i, acc) ==
    IF i > Len(current) THEN Ok(acc)
    ELSE IF ~is_ascii_digit(current[i]) THEN Err("ParseError")
    ELSE LET v == acc * 10 + (current[i] - Char_0)
         IN  IF v > U32_MAX THEN Err("ParseError")
             ELSE parse_u32_from(current, i + 1, v)

parse_u32(current) ==
    IF current = <<>> THEN Err("ParseError") ELSE parse_u32_from(current, 1, 0)

\* "Handle the last component" and the final emptiness test (id.rs 475-491).
scan_finish(st) ==
    LET closed ==
            IF st.current = <<>> THEN Ok(st.components)
            ELSE IF st.expecting_numeric
                 THEN LET num == parse_u32(st.current)
                      IN  IF num.tag = "Err" THEN num
                          ELSE Ok(Append(st.components, Numeric(num.val)))
                 ELSE LET a == IdComponent_alpha(st.current)
                      IN  IF a.tag = "Err" THEN a
                          ELSE Ok(Append(st.components, a.val))
    IN  IF closed.tag = "Err" THEN closed
        ELSE IF closed.val = <<>> THEN Err("EmptyId")
        ELSE closed

\* A plausible slip: a character outside the two classes is skipped.
RECURSIVE scan_from_skipping(_, _, _)
scan_from_skipping(s, i, st) ==
    IF i > Len(s) THEN scan_finish(st)
    ELSE LET ch == s[i] IN
         IF is_ascii_digit(ch)
         THEN IF ~st.expecting_numeric /\ st.current # <<>>
              THEN LET a == IdComponent_alpha(st.current)
                   IN  IF a.tag = "Err" THEN a
                       ELSE scan_from_skipping(s, i + 1,
                                [components |-> Append(st.components, a.val),
                                 current |-> <<ch>>,
                                 expecting_numeric |-> TRUE])
              ELSE scan_from_skipping(s, i + 1, [st EXCEPT !.current = Append(@, ch)])
         ELSE IF is_ascii_lowercase(ch)
         THEN IF st.expecting_numeric /\ st.current # <<>>
              THEN LET num == parse_u32(st.current)
                   IN  IF num.tag = "Err" THEN num
                       ELSE scan_from_skipping(s, i + 1,
                                [components |-> Append(st.components, Numeric(num.val)),
                                 current |-> <<ch>>,
                                 expecting_numeric |-> FALSE])
              ELSE scan_from_skipping(s, i + 1, [st EXCEPT !.current = Append(@, ch)])
         ELSE scan_from_skipping(s, i + 1, st)

\* The loop `for ch in s.chars()` (id.rs 447-473), character i next.
RECURSIVE scan_from(_, _, _)
scan_from(s, i, st) ==
    IF i > Len(s) THEN scan_finish(st)
    ELSE LET ch == s[i] IN
         IF is_ascii_digit(ch)
         THEN IF ~st.expecting_numeric /\ st.current # <<>>
              THEN LET a == IdComponent_alpha(st.current)
                   IN  IF a.tag = "Err" THEN a
                       ELSE scan_from(s, i + 1,
                                [components |-> Append(st.components, a.val),
                                 current |-> <<ch>>,
                                 expecting_numeric |-> TRUE])
              ELSE scan_from(s, i + 1, [st EXCEPT !.current = Append(@, ch)])
         ELSE IF is_ascii_lowercase(ch)
         THEN IF st.expecting_numeric /\ st.current # <<>>
              THEN LET num == parse_u32(st.current)
                   IN  IF num.tag = "Err" THEN num
                       ELSE scan_from(s, i + 1,
                                [components |-> Append(st.components, Numeric(num.val)),
                                 current |-> <<ch>>,
                                 expecting_numeric |-> FALSE])
              ELSE scan_from(s, i + 1, [st EXCEPT !.current = Append(@, ch)])
         ELSE Err("InvalidFormat")

parse_id_string(s) ==
    IF s = <<>> THEN Err("EmptyId")
    ELSE scan_from(s, 1, [components |-> <<>>, current |-> <<>>, expecting_numeric |-> TRUE])

Id_parse(s) ==
    IF s = <<>> THEN Err("EmptyId")
    ELSE LET r == parse_id_string(s)
         IN  IF r.tag = "Err" THEN r ELSE Id_new(r.val)

(***************************************************************************)
(* Filename patterns and extraction (id.rs 345-359, 402-434)               *)
(*                                                                         *)
(* Every pattern is the start anchor, the capture group id_pattern (one or *)
(* more characters of a class) and a suffix. A pattern is the record       *)
(* [id_pattern, suffix, literal]: the class, the kind of suffix (the end   *)
(* anchor, the escaped separator, or one character outside 0-9a-z; the     *)
(* last two followed by anything) and the separator. captures() is the     *)
(* regex engine's answer: anchored at the start, greedy, giving up         *)
(* characters of the group until the suffix matches.                       *)
(***************************************************************************)
\* IdConfig::default(): fuzzy matching, the separator " - ", ASCII only.
IdConfig_default ==
    [match_rule |-> "fuzzy",
     separator |-> <<Char_space, Char_dash, Char_space>>,
     allow_unicode |-> FALSE]

\* The fallback pattern: the whole filename is the run.
strict_pattern(cls) == [id_pattern |-> cls, suffix |-> "end", literal |-> <<>>]

\* \p{L}, on the characters of the model: the ASCII letters and U+00E9.
is_letter(c) ==
    \/ is_ascii_lowercase(c)
    \/ (c >= Char_A /\ c <= Char_Z)
    \/ c = Char_eacute

\* Membership in the class of id_pattern: [0-9a-z] or [0-9\p{L}].
in_id_class(cls, c) ==
    IF cls = "unicode" THEN is_ascii_digit(c) \/ is_letter(c)
    ELSE is_ascii_digit(c) \/ is_ascii_lowercase(c)

\* The text from position i on starts with the literal lit.
starts_with_at(text, i, lit) ==
    /\ i + Len(lit) - 1 <= Len(text)
    /\ \A j \in 1..Len(lit) : text[i + j - 1] = lit[j]

\* The suffix of the pattern matches right after the first k characters.
suffix_matches(pattern, filename, k) ==
    IF pattern.suffix = "end" THEN k = Len(filename)
    ELSE IF pattern.suffix = "separator"
         THEN starts_with_at(filename, k + 1, pattern.literal)
         ELSE \* one character outside 0-9a-z, then anything
              /\ k < Len(filename)
              /\ ~(is_ascii_digit(filename[k + 1]) \/ is_ascii_lowercase(filename[k + 1]))

\* The group lengths for which the whole pattern matches.
match_lengths(pattern, filename) ==
    {k \in 1..Len(filename) :
        /\ \A i \in 1..k : in_id_class(pattern.id_pattern, filename[i])
        /\ suffix_matches(pattern, filename, k)}

\* pattern.captures(filename).get(1): the text of group 1, or None.
captures(pattern, filename) ==
    LET ks == match_lengths(pattern, filename) IN
    IF ks = {} THEN None
    ELSE Ok(SubSeq(filename, 1, CHOOSE k \in ks : \A m \in ks : m <= k))

\* A plausible slip: the strict pattern loses its end anchor.
get_filename_patterns_unanchored(cfg) ==
    LET cls == IF cfg.allow_unicode THEN "unicode" ELSE "ascii" IN
    IF cfg.match_rule = "strict"
    THEN <<[id_pattern |-> cls, suffix |-> "separator", literal |-> <<>>]>>
    ELSE IF cfg.match_rule = "separator"
    THEN <<[id_pattern |-> cls, suffix |-> "separator", literal |-> cfg.separator]>>
    ELSE IF cfg.match_rule = "fuzzy"
    THEN <<[id_pattern |-> cls, suffix |-> "boundary", literal |-> <<>>],
           strict_pattern(cls)>>
    ELSE <<strict_pattern(cls)>>

\* A plausible slip: the separator pattern forgets the separator.
get_filename_patterns_nosep(cfg) ==
    LET cls == IF cfg.allow_unicode THEN "unicode" ELSE "ascii" IN
    IF cfg.match_rule = "strict"
    THEN <<strict_pattern(cls)>>
    ELSE IF cfg.match_rule = "separator"
    THEN <<[id_pattern |-> cls, suffix |-> "separator", literal |-> <<>>]>>
    ELSE IF cfg.match_rule = "fuzzy"
    THEN <<[id_pattern |-> cls, suffix |-> "boundary", literal |-> <<>>],
           strict_pattern(cls)>>
    ELSE <<strict_pattern(cls)>>

get_filename_patterns(cfg) ==
    LET cls == IF cfg.allow_unicode THEN "unicode" ELSE "ascii" IN
    IF cfg.match_rule = "strict"
    THEN <<strict_pattern(cls)>>
    ELSE IF cfg.match_rule = "separator"
    THEN <<[id_pattern |-> cls, suffix |-> "separator", literal |-> cfg.separator]>>
    ELSE IF cfg.match_rule = "fuzzy"
    THEN <<[id_pattern |-> cls, suffix |-> "boundary", literal |-> <<>>],
           strict_pattern(cls)>>
    ELSE <<strict_pattern(cls)>>

\* A plausible slip: a capture that does not parse is cut down to its leading
\* digit and returned as a root identifier.
RECURSIVE extract_from_guessing(_, _, _)
extract_from_guessing(patterns, i, filename) ==
    IF i > Len(patterns) THEN None
    ELSE LET id_match == captures(patterns[i], filename) IN
         IF id_match.tag = "Ok" /\ Id_parse(id_match.val).tag = "Ok"
         THEN Ok(Id_parse(id_match.val).val)
         ELSE IF id_match.tag = "Ok" /\ is_ascii_digit(id_match.val[1])
         THEN Ok(Id_from_number(id_match.val[1] - Char_0))
         ELSE extract_from_guessing(patterns, i + 1, filename)

\* The loop `for pattern in patterns`, pattern i next.
RECURSIVE extract_from(_, _, _)
extract_from(patterns, i, filename) ==
    IF i > Len(patterns) THEN None
    ELSE LET id_match == captures(patterns[i], filename) IN
         IF id_match.tag = "Ok" /\ Id_parse(id_match.val).tag = "Ok"
         THEN Ok(Id_parse(id_match.val).val)
         ELSE extract_from(patterns, i + 1, filename)

extract_from_filename(cfg, filename) ==
    extract_from(get_filename_patterns(cfg), 1, filename)

(***************************************************************************)
(* Initial values shared by the specifications.                            *)
(***************************************************************************)
NoOp == [op |-> "none", arg |-> <<>>, res |-> None]
NoCall == [op |-> "none", start |-> <<>>]

ManagerAtRest ==
    /\ config = IdConfig_default
    /\ existing = {}
    /\ existsAll = FALSE
    /\ pc = "idle"
    /\ call = NoCall
    /\ candidate = <<>>
    /\ probes = <<>>
    /\ mutated = FALSE
    /\ ret = None

ManagerUnchanged ==
    UNCHANGED <<existing, existsAll, pc, call, candidate, probes, mutated, ret, config>>

(***************************************************************************)
(* SpecAlpha: the incrementer applied, again and again, to a string of     *)
(* lowercase letters.                                                      *)
(***************************************************************************)
LowerLetters == Char_a..Char_z

InitAlpha ==
    /\ input \in Strings(LowerLetters, 0, MaxAlphaLen)
    /\ id = Id_from_number(1)
    /\ last = NoOp
    /\ steps = 0
    /\ ManagerAtRest

IncrementAlpha ==
    /\ Len(input) <= MaxAlphaLen
    /\ LET r == increment_alpha_string(input) IN
        /\ last' = [op |-> "increment_alpha_string", arg |-> input, res |-> r]
        /\ input' = IF r.tag = "Ok" THEN r.val ELSE input
    /\ UNCHANGED <<id, steps>>
    /\ ManagerUnchanged

NextAlpha == IncrementAlpha

SpecAlpha == InitAlpha /\ [][NextAlpha]_vars

(***************************************************************************)
(* SpecParse: Id::parse and the scanner applied to a bounded string.       *)
(***************************************************************************)
ParseChars ==
    {Char_0, D(1), Char_9, Char_a, Char_z, Char_A, Char_dash, Char_space, Char_eacute}

InitParse ==
    /\ input \in Strings(ParseChars, 0, MaxInputLen)
    /\ id = Id_from_number(1)
    /\ last = NoOp
    /\ steps = 0
    /\ ManagerAtRest

Parse ==
    /\ last.op # "parse"
    /\ LET r == Id_parse(input) IN
        /\ last' = [op |-> "parse", arg |-> input, res |-> r]
        /\ id' = IF r.tag = "Ok" THEN r.val ELSE id
    /\ UNCHANGED <<steps, input>>
    /\ ManagerUnchanged

Scan ==
    /\ last.op # "parse_id_string"
    /\ last' = [op |-> "parse_id_string", arg |-> input, res |-> parse_id_string(input)]
    /\ UNCHANGED <<id, steps, input>>
    /\ ManagerUnchanged

NextParse == Parse \/ Scan

SpecParse == InitParse /\ [][NextParse]_vars

(***************************************************************************)
(* SpecId: identifiers built by Id::parse, Id::new and Id::from_number and *)
(* transformed by next_sibling, first_child, parent and ancestors.         *)
(***************************************************************************)
FromNumbers == {0, 1, U32_MAX - 1, U32_MAX}

IdSeeds ==
    { <<>>,
      <<D(1)>>,
      <<D(0), D(1)>>,
      <<D(1), Char_a>>,
      <<D(1), Char_z>>,
      <<D(1), Char_z, Char_z>>,
      <<D(1), Char_a, D(2)>>,
      <<D(1), Char_a>> \o Decimal(U32_MAX),
      Decimal(U32_MAX),
      <<Char_a, D(1)>>,
      <<D(1), Char_A>> }

\* Components as IdComponent::numeric and IdComponent::alpha build them.
SeedComponents ==
    {Numeric(1), Numeric(U32_MAX), Alpha(<<Char_a>>), Alpha(<<Char_z>>)}

ComponentLists == Strings(SeedComponents, 0, 3)

InitId ==
    /\ id \in {Id_from_number(n) : n \in FromNumbers}
    /\ last = NoOp
    /\ steps = 0
    /\ input = <<>>
    /\ ManagerAtRest

\* The operation op applied to arg gave r; the program keeps the identifier it got.
Applied(op, arg, r) ==
    /\ steps < MaxSteps
    /\ steps' = steps + 1
    /\ last' = [op |-> op, arg |-> arg, res |-> r]
    /\ id' = IF r.tag = "Ok" THEN r.val ELSE id
    /\ UNCHANGED input
    /\ ManagerUnchanged

ParseId == \E s \in IdSeeds : Applied("parse", s, Id_parse(s))

NewId == \E cs \in ComponentLists : Applied("new", cs, Id_new(cs))

FromNumber == \E n \in FromNumbers : Applied("from_number", n, Ok(Id_from_number(n)))

NextSibling == Applied("next_sibling", id, next_sibling(id))

FirstChild == Applied("first_child", id, Ok(first_child(id)))

Parent == Applied("parent", id, Id_parent(id))

\* ancestors() returns the list; the program goes on with any one of them.
Ancestors ==
    /\ steps < MaxSteps
    /\ steps' = steps + 1
    /\ LET l == ancestors(id) IN
        /\ last' = [op |-> "ancestors", arg |-> id, res |-> List(l)]
        /\ id' \in (IF l = <<>> THEN {id} ELSE {l[i] : i \in 1..Len(l)})
    /\ UNCHANGED input
    /\ ManagerUnchanged

\* The identifiers the seeds parse to.
ParsedSeeds == {Id_parse(s).val : s \in {t \in IdSeeds : Id_parse(t).tag = "Ok"}}

\* The identifiers the current one is compared with: the parsed seeds and the
\* identifiers generated from the current one.
OtherIds(x) ==
    ParsedSeeds
    \cup {x, first_child(x), first_child(first_child(x))}
    \cup (IF Id_parent(x).tag = "Ok" THEN {Id_parent(x).val} ELSE {})
    \cup (IF next_sibling(x).tag = "Ok" THEN {next_sibling(x).val} ELSE {})

IsAncestorOf ==
    \E other \in OtherIds(id) :
        Applied("is_ancestor_of", <<id, other>>, Bool(is_ancestor_of(id, other)))

IsDescendantOf ==
    \E other \in OtherIds(id) :
        Applied("is_descendant_of", <<id, other>>, Bool(is_descendant_of(id, other)))

IsSiblingOf ==
    \E other \in OtherIds(id) :
        Applied("is_sibling_of", <<id, other>>, Bool(is_sibling_of(id, other)))

\* The result of an operation that gives a single component.
Component(c) == [tag |-> "Component", err |-> "", val |-> c]

\* The strings IdComponent::alpha is called with.
AlphaSeeds == Strings({Char_a, Char_z, Char_A, D(1)}, 0, 2)

\* IdComponent::alpha(s): a component is built, or refused; the identifier stays.
AlphaComponent ==
    /\ steps < MaxSteps
    /\ steps' = steps + 1
    /\ \E s \in AlphaSeeds :
          LET r == IdComponent_alpha(s) IN
          last' = [op |-> "alpha", arg |-> s,
                   res |-> IF r.tag = "Ok" THEN Component(r.val) ELSE r]
    /\ UNCHANGED <<id, input>>
    /\ ManagerUnchanged


NextId ==
    \/ ParseId
    \/ NewId
    \/ FromNumber
    \/ NextSibling
    \/ FirstChild
    \/ Parent
    \/ Ancestors
    \/ IsAncestorOf
    \/ IsDescendantOf
    \/ IsSiblingOf
    \/ AlphaComponent

SpecId == InitId /\ [][NextId]_vars

(***************************************************************************)
(* SpecExtract: a manager built with some configuration is asked for the   *)
(* identifier of a filename.                                               *)
(***************************************************************************)
FileChars == {D(1), Char_a, Char_eacute, Char_dash, Char_space, Char_dot}

Filenames == Strings(FileChars, 0, MaxFilenameLen)

Separators == {IdConfig_default.separator, <<Char_dash>>, <<Char_a>>}

\* "exact" stands for any rule name the match falls through on.
Configs ==
    {[match_rule |-> r, separator |-> IdConfig_default.separator, allow_unicode |-> u] :
        r \in {"strict", "fuzzy", "exact"}, u \in BOOLEAN}
    \cup {[match_rule |-> "separator", separator |-> p, allow_unicode |-> u] :
        p \in Separators, u \in BOOLEAN}

InitExtract ==
    /\ input \in Filenames
    /\ id = Id_from_number(1)
    /\ last = NoOp
    /\ steps = 0
    /\ existing = {}
    /\ existsAll = FALSE
    /\ pc = "idle"
    /\ call = NoCall
    /\ candidate = <<>>
    /\ probes = <<>>
    /\ mutated = FALSE
    /\ ret = None
    /\ config \in Configs

Extract ==
    /\ last.op # "extract_from_filename"
    /\ LET r == extract_from_filename(config, input) IN
        /\ last' = [op |-> "extract_from_filename", arg |-> input, res |-> r]
        /\ id' = IF r.tag = "Ok" THEN r.val ELSE id
    /\ UNCHANGED <<steps, input>>
    /\ ManagerUnchanged

NextExtract == Extract

SpecExtract == InitExtract /\ [][NextExtract]_vars

(***************************************************************************)
(* IdManager: the availability searches (id.rs 321-399)                    *)
(*                                                                         *)
(* The injected existence_checker is either the membership test of the     *)
(* caller's store (`existing`, as the HashSet of the tests and the vault   *)
(* directory of the CLI) or the constant closure |_| true (existsAll).     *)
(* A search is followed probe by probe: the checker is the one call that   *)
(* leaves the core, and the store may change between two probes.           *)
(***************************************************************************)
existence_checker(s) == existsAll \/ s \in existing

StartIds ==
    { Id_from_number(1),
      Id_from_number(U32_MAX - 1),
      Id_from_number(U32_MAX),
      <<Numeric(1), Alpha(<<Char_a>>)>> }

\* The identifier strings the caller's store may come to hold.
Universe ==
    { <<D(2)>>,
      <<D(3)>>,
      Decimal(U32_MAX),
      <<D(1), Char_a>>,
      <<D(1), Char_b>>,
      <<D(1), Char_c>>,
      <<D(1), Char_a, D(1)>>,
      <<D(1), Char_a, D(2)>> }

InitMgr ==
    /\ config = IdConfig_default
    /\ id \in StartIds
    /\ last = NoOp
    /\ steps = 0
    /\ input = <<>>
    /\ existing = {}
    /\ existsAll \in BOOLEAN
    /\ pc = "idle"
    /\ call = NoCall
    /\ candidate = <<>>
    /\ probes = <<>>
    /\ mutated = FALSE
    /\ ret = None

IdUnchanged == UNCHANGED <<last, steps, input, config>>

\* The caller turns to another identifier (the CLI parses its argument).
Select ==
    /\ pc = "idle"
    /\ \E x \in StartIds : x # id /\ id' = x
    /\ IdUnchanged
    /\ UNCHANGED <<existing, existsAll, pc, call, candidate, probes, mutated, ret>>

\* The caller's store gains an identifier (a note is created). While a search
\* runs this is recorded in `mutated`, and followed once per search.
Touch ==
    /\ ~existsAll
    /\ pc # "idle" => ~mutated
    /\ \E s \in Universe \ existing : existing' = existing \cup {s}
    /\ mutated' = (pc # "idle")
    /\ IdUnchanged
    /\ UNCHANGED <<id, existsAll, pc, call, candidate, probes, ret>>

\* next_available_sibling, up to its first probe (id.rs 362-363).
CallSibling ==
    /\ pc = "idle"
    /\ call' = [op |-> "next_available_sibling", start |-> id]
    /\ LET first == next_sibling(id) IN
        IF first.tag = "Err"
        THEN /\ pc' = "done"
             /\ ret' = first
             /\ candidate' = <<>>
        ELSE /\ pc' = "probe"
             /\ ret' = None
             /\ candidate' = first.val
    /\ probes' = <<>>
    /\ mutated' = FALSE
    /\ IdUnchanged
    /\ UNCHANGED <<id, existing, existsAll>>

\* next_available_child, up to its first probe (id.rs 374-375).
CallChild ==
    /\ pc = "idle"
    /\ call' = [op |-> "next_available_child", start |-> id]
    /\ pc' = "probe"
    /\ ret' = None
    /\ candidate' = first_child(id)
    /\ probes' = <<>>
    /\ mutated' = FALSE
    /\ IdUnchanged
    /\ UNCHANGED <<id, existing, existsAll>>

\* The model follows an alphabetic walk up to MaxWalkAlphaLen letters.
WithinWalk(c) ==
    is_alpha(c[Len(c)]) => Len(c[Len(c)].str) <= MaxWalkAlphaLen

\* A plausible slip: after a collision the next sibling is returned unprobed.
loop_iteration_unprobed(op, cand, ans) ==
    IF ~ans
    THEN [pc |-> "done", candidate |-> cand, ret |-> Ok(cand)]
    ELSE LET next == next_sibling(cand) IN
         IF next.tag = "Ok"
         THEN [pc |-> "done", candidate |-> next.val, ret |-> Ok(next.val)]
         ELSE IF op = "next_available_sibling"
              THEN [pc |-> "done", candidate |-> cand, ret |-> next]
              ELSE [pc |-> "done", candidate |-> cand, ret |-> Ok(cand)]

\* A plausible slip: a colliding child candidate is replaced by its own first
\* child, so the walk descends instead of advancing at the child's level.
loop_iteration_descend(op, cand, ans) ==
    IF ~ans
    THEN [pc |-> "done", candidate |-> cand, ret |-> Ok(cand)]
    ELSE IF op = "next_available_child"
         THEN [pc |-> "probe", candidate |-> first_child(cand), ret |-> None]
         ELSE LET next == next_sibling(cand) IN
              IF next.tag = "Ok"
              THEN [pc |-> "probe", candidate |-> next.val, ret |-> None]
              ELSE [pc |-> "done", candidate |-> cand, ret |-> next]

\* A plausible slip: the loop condition is negated.
loop_iteration_negated(op, cand, ans) ==
    IF ans
    THEN [pc |-> "done", candidate |-> cand, ret |-> Ok(cand)]
    ELSE LET next == next_sibling(cand) IN
         IF next.tag = "Ok"
         THEN [pc |-> "probe", candidate |-> next.val, ret |-> None]
         ELSE IF op = "next_available_sibling"
              THEN [pc |-> "done", candidate |-> cand, ret |-> next]
              ELSE [pc |-> "done", candidate |-> cand, ret |-> Ok(cand)]

\* A plausible slip: after a collision the walk advances by two siblings.
loop_iteration_skipping(op, cand, ans) ==
    IF ~ans
    THEN [pc |-> "done", candidate |-> cand, ret |-> Ok(cand)]
    ELSE LET next == next_sibling(cand) IN
         IF next.tag = "Ok"
         THEN LET after == next_sibling(next.val) IN
              IF after.tag = "Ok"
              THEN [pc |-> "probe", candidate |-> after.val, ret |-> None]
              ELSE [pc |-> "probe", candidate |-> next.val, ret |-> None]
         ELSE IF op = "next_available_sibling"
              THEN [pc |-> "done", candidate |-> cand, ret |-> next]
              ELSE [pc |-> "done", candidate |-> cand, ret |-> Ok(cand)]


\* What one evaluation of the loop condition and, when it holds, of the loop body
\* does to the search: [pc, candidate, ret] (id.rs 366-371, 378-389).
loop_iteration(op, cand, ans) ==
    IF ~ans
    THEN [pc |-> "done", candidate |-> cand, ret |-> Ok(cand)]
    ELSE LET next == next_sibling(cand) IN
         IF next.tag = "Ok"
         THEN [pc |-> "probe", candidate |-> next.val, ret |-> None]
         ELSE IF op = "next_available_sibling"
              THEN [pc |-> "done", candidate |-> cand, ret |-> next]
              ELSE [pc |-> "done", candidate |-> cand, ret |-> Ok(cand)]

\* One iteration of `while (self.existence_checker)(&candidate.to_string())`.
Probe ==
    /\ pc = "probe"
    /\ LET s == to_string(candidate)
           ans == existence_checker(s)
           it == loop_iteration(call.op, candidate, ans)
       IN
        /\ it.pc = "probe" => WithinWalk(candidate)
        /\ probes' = Append(probes, [asked |-> s, answer |-> ans])
        /\ pc' = it.pc
        /\ candidate' = it.candidate
        /\ ret' = it.ret
    /\ IdUnchanged
    /\ UNCHANGED <<id, existing, existsAll, call, mutated>>

\* The caller has taken the result; the manager is at rest again.
Return ==
    /\ pc = "done"
    /\ pc' = "idle"
    /\ call' = NoCall
    /\ candidate' = <<>>
    /\ probes' = <<>>
    /\ mutated' = FALSE
    /\ ret' = None
    /\ IdUnchanged
    /\ UNCHANGED <<id, existing, existsAll>>

NextMgr ==
    \/ Select
    \/ Touch
    \/ CallSibling
    \/ CallChild
    \/ Probe
    \/ Return

SpecMgr == InitMgr /\ [][NextMgr]_vars

\* A running call keeps running: the core is single-threaded and synchronous, and
\* the checker answers every probe.
SpecMgrFair == SpecMgr /\ WF_vars(Probe)

(***************************************************************************)
(* Properties.                                                             *)
(***************************************************************************)
\* next_sibling applied k times to x: Ok(identifier), or the error that stopped it.
RECURSIVE nth_sibling(_, _)
nth_sibling(x, k) ==
    IF k = 0 THEN Ok(x)
    ELSE LET p == nth_sibling(x, k - 1)
         IN  IF p.tag = "Err" THEN p ELSE next_sibling(p.val)

\* r is an identifier the checker reports as not existing.
Unused(r) == r.tag = "Ok" /\ ~existence_checker(to_string(r.val))
\* r is an identifier the checker reports as existing.
Used(r) == r.tag = "Ok" /\ existence_checker(to_string(r.val))

Returned(op) == pc = "done" /\ call.op = op

LastOf(x) == x[Len(x)]

\* C1: when next_available_sibling(current) returns Ok(r) under a checker that did
\* not change during the call, r is next_sibling applied k >= 1 times to current,
\* the checker reports r as not existing and reports each of the k - 1 siblings
\* before it as existing.
C1_FirstUnusedSibling ==
    (Returned("next_available_sibling") /\ ~mutated /\ ret.tag = "Ok") =>
        \E k \in 1..(Cardinality(existing) + 1) :
            /\ nth_sibling(call.start, k) = Ok(ret.val)
            /\ Unused(Ok(ret.val))
            /\ \A j \in 1..(k - 1) : Used(nth_sibling(call.start, j))

\* A sibling search returned an identifier after stepping over two existing ones.
C1_Witness ==
    /\ Returned("next_available_sibling")
    /\ ~mutated
    /\ ret.tag = "Ok"
    /\ Len(probes) >= 3

\* The k-th identifier (k = 0, 1, ...) of the child-level sequence of parent p.
ChildSeq(p, k) == nth_sibling(first_child(p), k)

\* C2: when some identifier of the child-level sequence first_child(parent),
\* next_sibling(first_child(parent)), ... is unused under a checker that did not
\* change during the call, next_available_child(parent) returns the first unused
\* one of that sequence, and the result has parent as its parent.
C2_FirstUnusedChild ==
    (Returned("next_available_child") /\ ~mutated) =>
        \A k \in 0..Cardinality(existing) :
            ( /\ Unused(ChildSeq(call.start, k))
              /\ \A j \in 0..(k - 1) : ~Unused(ChildSeq(call.start, j)) )
            => /\ ret = ChildSeq(call.start, k)
               /\ Id_parent(ret.val) = Ok(call.start)

\* A child search returned the third identifier of the child-level sequence.
C2_Witness ==
    /\ Returned("next_available_child")
    /\ ~mutated
    /\ Len(probes) = 3
    /\ Unused(ret)
    /\ ret = ChildSeq(call.start, 2)

\* C3: an identifier returned by either search is one the checker reported as not
\* existing during that call, and a search that ends because next_sibling
\* overflowed ends with the Overflow error.
C3_NoCollidingResult ==
    pc = "done" =>
        /\ ret.tag = "Ok" =>
              \E i \in 1..Len(probes) :
                  probes[i].asked = to_string(ret.val) /\ ~probes[i].answer
        /\ (probes # <<>> /\ probes[Len(probes)].answer) => ret = Err("Overflow")

\* The identifier start with its last component replaced by Numeric(m).
WithLast(start, m) == [start EXCEPT ![Len(start)] = Numeric(m)]

\* C4: if current's last component is numeric and the checker (unchanged during the
\* call) reports every later sibling up to the maximum as existing, or current is
\* at the maximum already, next_available_sibling returns the Overflow error.
C4_SiblingOverflow ==
    ( /\ Returned("next_available_sibling")
      /\ ~mutated
      /\ is_numeric(LastOf(call.start))
      /\ \A m \in (LastOf(call.start).num + 1)..U32_MAX :
            existence_checker(to_string(WithLast(call.start, m))) )
    => ret = Err("Overflow")

\* A sibling search probed at least one later sibling and ended in Overflow.
C4_Witness ==
    /\ Returned("next_available_sibling")
    /\ ~mutated
    /\ ret = Err("Overflow")
    /\ probes # <<>>

CanEnd == ~existsAll \/ is_numeric(LastOf(candidate))

Alternates(x) ==
    /\ Len(x) >= 1
    /\ \A i \in 1..Len(x) :
          IF (i - 1) % 2 = 0 THEN x[i].kind = "Numeric" ELSE x[i].kind = "Alpha"

\* C6: every identifier produced by parse, new, from_number, next_sibling,
\* first_child, parent and ancestors, in any sequence, is non-empty and alternates
\* Numeric (even index) and Alpha (odd index).
C6_Alternation ==
    /\ Alternates(id)
    /\ last.res.tag = "Ok" => Alternates(last.res.val)
    /\ last.res.tag = "List" =>
          \A i \in 1..Len(last.res.val) : Alternates(last.res.val[i])

\* A generated identifier of depth 3 or more.
C6_Witness ==
    /\ last.op \in {"first_child", "next_sibling"}
    /\ last.res.tag = "Ok"
    /\ Len(last.res.val) >= 3

\* C7 as stated: for every string s that Id::parse accepts, parse(s).to_string() = s.
C7_RoundTrip ==
    (last.op = "parse" /\ last.res.tag = "Ok") => to_string(last.res.val) = last.arg

\* Some numeric run of s is written with a superfluous leading zero.
HasLeadingZero(s) ==
    \E i \in 1..(Len(s) - 1) :
        /\ s[i] = Char_0
        /\ is_ascii_digit(s[i + 1])
        /\ (i = 1 \/ ~is_ascii_digit(s[i - 1]))

\* C7, amended: for every string s that Id::parse accepts, parse(s).to_string() = s
\* exactly when no numeric run of s is written with a leading zero.
C7_RoundTripCanonical ==
    (last.op = "parse" /\ last.res.tag = "Ok") =>
        (to_string(last.res.val) = last.arg <=> ~HasLeadingZero(last.arg))

\* An accepted string of three components that round-trips.
C7_Witness ==
    /\ last.op = "parse"
    /\ last.res.tag = "Ok"
    /\ Len(last.res.val) = 3
    /\ to_string(last.res.val) = last.arg

\* The value of s as a bijective base-26 numeral, a = 1 ... z = 26.
RECURSIVE Bijective26(_)
Bijective26(s) ==
    IF s = <<>> THEN 0
    ELSE 26 * Bijective26(SubSeq(s, 1, Len(s) - 1)) + (s[Len(s)] - Char_a + 1)

AllZ(s) == \A i \in 1..Len(s) : s[i] = Char_z

\* C8: for every non-empty string s over a-z, increment_alpha_string(s) is a
\* non-empty string over a-z whose bijective base-26 value is that of s plus one,
\* one character longer than s exactly when s is all 'z' and as long as s otherwise.
C8_AlphaSuccessor ==
    (last.op = "increment_alpha_string" /\ last.arg # <<>>) =>
        /\ last.res.tag = "Ok"
        /\ last.res.val # <<>>
        /\ \A i \in 1..Len(last.res.val) : is_ascii_lowercase(last.res.val[i])
        /\ Bijective26(last.res.val) = Bijective26(last.arg) + 1
        /\ Len(last.res.val) = Len(last.arg) + (IF AllZ(last.arg) THEN 1 ELSE 0)

\* The incrementer grew an all-'z' string of two letters.
C8_Witness ==
    /\ last.op = "increment_alpha_string"
    /\ Len(last.arg) = 2
    /\ AllZ(last.arg)
    /\ Len(last.res.val) = 3

C10_SiblingFrame ==
    (last.op = "next_sibling" /\ last.res.tag = "Ok") =>
        LET x == last.arg
            y == last.res.val
        IN  /\ Len(y) = Len(x)
            /\ \A i \in 1..(Len(x) - 1) : y[i] = x[i]
            /\ Ok(LastOf(y)) = IdComponent_increment(LastOf(x))

\* next_sibling succeeded on an identifier of depth 3.
C10_Witness ==
    /\ last.op = "next_sibling"
    /\ last.res.tag = "Ok"
    /\ Len(last.arg) = 3

\* C11: first_child(x) never fails, keeps every component of x as its prefix and
\* appends exactly one component: Alpha("a") when depth(x) is odd, where the last
\* component of x is numeric, and Numeric(1) when depth(x) is even, where it is
\* alphabetic.
C11_FirstChildAlternates ==
    last.op = "first_child" =>
        LET x == last.arg
            y == last.res.val
        IN  /\ last.res.tag = "Ok"
            /\ Len(y) = Len(x) + 1
            /\ SubSeq(y, 1, Len(x)) = x
            /\ IF depth(x) % 2 = 1
               THEN is_numeric(LastOf(x)) /\ LastOf(y) = Alpha(<<Char_a>>)
               ELSE is_alpha(LastOf(x)) /\ LastOf(y) = Numeric(1)

\* first_child was applied to an identifier of even depth.
C11_Witness ==
    /\ last.op = "first_child"
    /\ depth(last.arg) = 2
    /\ LastOf(last.res.val) = Numeric(1)

\* C12: parent(x) is never an error; it is "no parent" exactly when depth(x) = 1
\* and otherwise the identifier made of all components of x but the last. Hence
\* parent(first_child(x)) = x, and parent(next_sibling(x)) = parent(x) where
\* next_sibling(x) succeeds.
C12_ParentOptional ==
    /\ last.op = "parent" =>
          /\ last.res.tag # "Err"
          /\ last.res = None <=> depth(last.arg) = 1
          /\ depth(last.arg) > 1 =>
                last.res = Ok(SubSeq(last.arg, 1, Len(last.arg) - 1))
    /\ last.op = "first_child" => Id_parent(last.res.val) = Ok(last.arg)
    /\ (last.op = "next_sibling" /\ last.res.tag = "Ok") =>
          Id_parent(last.res.val) = Id_parent(last.arg)

\* parent was applied to a root, after it had been applied to a deeper identifier.
C12_Witness ==
    /\ last.op = "parent"
    /\ last.res = None
    /\ steps >= 3

\* a's components are the first depth(a) components of b, and b has more.
StrictPrefix(a, b) == Len(a) < Len(b) /\ SubSeq(b, 1, Len(a)) = a

\* C13: A.is_ancestor_of(B) is true exactly when depth(A) < depth(B) and the
\* components of A are the first depth(A) components of B; the relation is
\* irreflexive and antisymmetric, and B.is_descendant_of(A) equals
\* A.is_ancestor_of(B).
C13_AncestorStrictPrefix ==
    /\ last.op = "is_ancestor_of" =>
          LET a == last.arg[1]
              b == last.arg[2]
          IN  /\ last.res = Bool(StrictPrefix(a, b))
              /\ ~is_ancestor_of(a, a)
              /\ last.res.val => ~is_ancestor_of(b, a)
              /\ is_descendant_of(b, a) = last.res.val
    /\ last.op = "is_descendant_of" =>
          last.res = Bool(StrictPrefix(last.arg[2], last.arg[1]))

\* An identifier of depth 2 or more was found to be the ancestor of another.
C13_Witness ==
    /\ last.op = "is_ancestor_of"
    /\ last.res.val
    /\ Len(last.arg[1]) >= 2

\* All components of a and b except the last are pairwise equal.
SameButLast(a, b) ==
    /\ Len(a) = Len(b)
    /\ \A i \in 1..(Len(a) - 1) : a[i] = b[i]

\* C14: A.is_sibling_of(B) is true exactly when depth(A) = depth(B) and all
\* components except the last are pairwise equal; two roots are always siblings,
\* identifiers of different depth never are, and the relation is symmetric.
C14_SiblingSameParent ==
    last.op = "is_sibling_of" =>
        LET a == last.arg[1]
            b == last.arg[2]
        IN  /\ last.res = Bool(SameButLast(a, b))
            /\ (depth(a) = 1 /\ depth(b) = 1) => last.res.val
            /\ depth(a) # depth(b) => ~last.res.val
            /\ is_sibling_of(b, a) = last.res.val

\* Two different identifiers of depth 2 or more were found to be siblings.
C14_Witness ==
    /\ last.op = "is_sibling_of"
    /\ last.res.val
    /\ Len(last.arg[1]) >= 2
    /\ last.arg[1] # last.arg[2]

\* C15: Id::parse fails with EmptyId on the empty string and with InvalidFormat on
\* every non-empty string whose first character is a lowercase letter; it returns
\* an identifier for neither.
C15_LeadingLetterInvalidFormat ==
    last.op = "parse" =>
        /\ last.arg = <<>> => last.res = Err("EmptyId")
        /\ (last.arg # <<>> /\ is_ascii_lowercase(last.arg[1])) =>
              last.res = Err("InvalidFormat")

\* c is a character an identifier string may hold.
IsIdChar(c) == is_ascii_digit(c) \/ is_ascii_lowercase(c)

HasInvalidChar(s) == \E i \in 1..Len(s) : ~IsIdChar(s[i])

\* The part of s before its first character that is no identifier character.
BeforeFirstInvalid(s) ==
    LET k == CHOOSE i \in 1..Len(s) :
                 ~IsIdChar(s[i]) /\ \A j \in 1..(i - 1) : IsIdChar(s[j])
    IN  SubSeq(s, 1, k - 1)

\* The value of a string of digits, as far as it matters: capped above the maximum.
RECURSIVE DigitsValue(_)
DigitsValue(ds) ==
    IF ds = <<>> THEN 0
    ELSE LET v == 10 * DigitsValue(SubSeq(ds, 1, Len(ds) - 1)) + (ds[Len(ds)] - Char_0)
         IN  IF v > U32_MAX THEN U32_MAX + 1 ELSE v

\* Somewhere in p a lowercase letter follows a run that is no u32: a run of digits
\* above the maximum, or a run that opens p with a letter.
LetterAfterBadRun(p) ==
    IF p # <<>> /\ is_ascii_lowercase(p[1])
    THEN \E j \in 2..Len(p) : is_ascii_lowercase(p[j])
    ELSE \E i \in 1..Len(p) : \E j \in i..(Len(p) - 1) :
            /\ \A k \in i..j : is_ascii_digit(p[k])
            /\ i = 1 \/ ~is_ascii_digit(p[i - 1])
            /\ is_ascii_lowercase(p[j + 1])
            /\ DigitsValue(SubSeq(p, i, j)) > U32_MAX

\* C16 as stated: on every string that holds, at any position, a character that is
\* neither an ASCII digit nor an ASCII lowercase letter, Id::parse fails with
\* InvalidFormat.
C16_InvalidCharInvalidFormat ==
    (last.op = "parse" /\ HasInvalidChar(last.arg)) => last.res = Err("InvalidFormat")

\* C16, amended: on every such string Id::parse fails; the failure is InvalidFormat,
\* unless before the first such character a lowercase letter follows a run that is
\* no u32, and then it is ParseError.
C16_InvalidCharFails ==
    (last.op = "parse" /\ HasInvalidChar(last.arg)) =>
        last.res = IF LetterAfterBadRun(BeforeFirstInvalid(last.arg))
                   THEN Err("ParseError")
                   ELSE Err("InvalidFormat")

\* A string whose invalid character comes last, after two components, was rejected
\* with InvalidFormat.
C16_Witness ==
    /\ last.op = "parse"
    /\ Len(last.arg) = 4
    /\ ~IsIdChar(last.arg[4])
    /\ is_ascii_digit(last.arg[1])
    /\ is_ascii_lowercase(last.arg[2])
    /\ last.res = Err("InvalidFormat")

\* extract_from_filename has answered under the match rule `rule`.
Extracted(rule) == last.op = "extract_from_filename" /\ config.match_rule = rule

\* Some(Id::parse(run)) when the run parses, no match otherwise.
ParsedOrNone(run) ==
    IF Id_parse(run).tag = "Ok" THEN Ok(Id_parse(run).val) ELSE None

\* The class of identifier characters the configuration selects.
ConfiguredClass == IF config.allow_unicode THEN "unicode" ELSE "ascii"

\* The leading run of f: its longest prefix of identifier characters.
LeadingRun(f) ==
    LET n == CHOOSE k \in 0..Len(f) :
                 /\ \A i \in 1..k : in_id_class(ConfiguredClass, f[i])
                 /\ k < Len(f) => ~in_id_class(ConfiguredClass, f[k + 1])
    IN  SubSeq(f, 1, n)

SeparatorFollowsRun(f) ==
    starts_with_at(f, Len(LeadingRun(f)) + 1, config.separator)

\* What the rule separator gives according to the claim.
SeparatorRuleResult(f) ==
    IF LeadingRun(f) # <<>> /\ SeparatorFollowsRun(f)
    THEN ParsedOrNone(LeadingRun(f))
    ELSE None

C19_FuzzyLeadingRun ==
    Extracted("fuzzy") =>
        last.res = IF LeadingRun(last.arg) # <<>>
                   THEN ParsedOrNone(LeadingRun(last.arg))
                   ELSE None

\* The captures of the patterns of the configuration on f, in order.
Captured(f) ==
    [i \in 1..Len(get_filename_patterns(config)) |->
        captures(get_filename_patterns(config)[i], f)]

\* The first pattern that matches f captured a run that does not parse.
FirstMatchFailsToParse(f) ==
    \E i \in 1..Len(Captured(f)) :
        /\ Captured(f)[i].tag = "Ok"
        /\ \A j \in 1..(i - 1) : Captured(f)[j].tag # "Ok"
        /\ Id_parse(Captured(f)[i].val).tag # "Ok"

\* C20: for every filename and configuration, extract_from_filename never fails;
\* it returns no match or the identifier that Id::parse gives for the run some
\* matching pattern captured; and when the pattern that matches captured a run
\* that does not parse, it returns no match.
C20_NoErrorNoGuess ==
    last.op = "extract_from_filename" =>
        /\ last.res.tag \in {"None", "Ok"}
        /\ last.res.tag = "Ok" =>
              \E i \in 1..Len(Captured(last.arg)) :
                  /\ Captured(last.arg)[i].tag = "Ok"
                  /\ Id_parse(Captured(last.arg)[i].val) = Ok(last.res.val)
        /\ FirstMatchFailsToParse(last.arg) => last.res = None

\* Under the default configuration a pattern matched a filename whose run starts
\* with a letter, and the answer was no match.
C20_Witness ==
    /\ last.op = "extract_from_filename"
    /\ config = IdConfig_default
    /\ Captured(last.arg)[1].tag = "Ok"
    /\ FirstMatchFailsToParse(last.arg)
    /\ is_ascii_lowercase(last.arg[1])
    /\ last.res = None

\* The first candidate of the running search.
FirstCandidate ==
    IF call.op = "next_available_sibling"
    THEN next_sibling(call.start)
    ELSE Ok(first_child(call.start))

\* The identifier a probe asked about, and the candidate generated after it.
Asked(i) == Id_parse(probes[i].asked)
AfterAsked(i) == next_sibling(Asked(i).val)

\* a comes before b: it is shorter, or as long and smaller at the first difference.
ShortLexLess(a, b) ==
    \/ Len(a) < Len(b)
    \/ /\ Len(a) = Len(b)
       /\ \E k \in 1..Len(a) :
             a[k] < b[k] /\ \A m \in 1..(k - 1) : a[m] = b[m]

\* The probes made so far are the first candidates in generation order: the first
\* probe asked about the first candidate, every probe but the last answered
\* "existing" and was followed by the probe of the next sibling; a search that
\* goes on holds the next candidate; a search that ended on "not existing"
\* returned the candidate of that probe. No string is asked about twice: each is
\* greater than the one before.
ProbesInGenerationOrder ==
    pc \in {"probe", "done"} =>
        /\ FirstCandidate.tag # "Ok" => (probes = <<>> /\ pc = "done")
        /\ probes # <<>> => probes[1].asked = to_string(FirstCandidate.val)
        /\ \A i \in 1..(Len(probes) - 1) :
              /\ probes[i].answer
              /\ Asked(i).tag = "Ok"
              /\ AfterAsked(i).tag = "Ok"
              /\ probes[i + 1].asked = to_string(AfterAsked(i).val)
              /\ ShortLexLess(probes[i].asked, probes[i + 1].asked)
        /\ pc = "probe" =>
              IF probes = <<>> THEN Ok(candidate) = FirstCandidate
              ELSE /\ probes[Len(probes)].answer
                   /\ Ok(candidate) = AfterAsked(Len(probes))
        /\ (pc = "done" /\ probes # <<>> /\ ~probes[Len(probes)].answer) =>
              ret = Asked(Len(probes))

\* A step that probes appends one entry whose answer is the checker's answer in
\* the state the probe is made in; a search that has returned probes no more.
ProbeIsFresh ==
    /\ Len(probes') > Len(probes) =>
          /\ pc = "probe"
          /\ Len(probes') = Len(probes) + 1
          /\ SubSeq(probes', 1, Len(probes)) = probes
          /\ probes'[Len(probes')].asked = to_string(candidate)
          /\ probes'[Len(probes')].answer = existence_checker(to_string(candidate))
    /\ pc = "done" => Len(probes') <= Len(probes)
    /\ (pc = "probe" /\ (candidate' # candidate \/ pc' = "done")) =>
          Len(probes') = Len(probes) + 1

\* C21: within one call of next_available_sibling or next_available_child the
\* checker is asked about the candidates in generation order, each exactly once,
\* one probe after the other; the call returns right after the first probe that
\* answers "not existing" and probes nothing after it; no answer is cached: a probe
\* made after the store changed sees the changed store.
C21_ProbeOrdering == []ProbesInGenerationOrder /\ [][ProbeIsFresh]_vars

\* A search stepped over two existing identifiers, one of which the store gained
\* while the search was running, and returned the third candidate.
C21_Witness ==
    /\ pc = "done"
    /\ mutated
    /\ Cardinality(existing) = 2
    /\ Len(probes) = 3
    /\ probes[1].answer /\ probes[2].answer /\ ~probes[3].answer
    /\ ret.tag = "Ok"


\* The child search ended because next_sibling overflowed on a colliding candidate.
ChildWalkOverflowed ==
    /\ Returned("next_available_child")
    /\ probes # <<>>
    /\ probes[Len(probes)].answer

\* C22: when every candidate of the child-level walk is reported as existing and
\* advancing the candidate with next_sibling overflows, next_available_child
\* returns the first child, parent.first_child(), and no error.
C22_OverflowFallsBackToFirstChild ==
    ChildWalkOverflowed => ret = Ok(first_child(call.start))


\* C23: Id::new returns EmptyId for the empty component sequence, InvalidFormat
\* when some even index holds a component that is not Numeric or some odd index
\* one that is not Alpha, and otherwise an identifier holding exactly the given
\* components in the given order; it never repairs the sequence.
C23_NewValidates ==
    last.op = "new" =>
        last.res = IF last.arg = <<>> THEN Err("EmptyId")
                   ELSE IF Alternates(last.arg) THEN Ok(last.arg)
                   ELSE Err("InvalidFormat")

\* Id::new refused a sequence of three components whose third is of the wrong class.
C23_Witness ==
    /\ last.op = "new"
    /\ Len(last.arg) = 3
    /\ Alternates(SubSeq(last.arg, 1, 2))
    /\ is_alpha(last.arg[3])
    /\ last.res = Err("InvalidFormat")

\* s is a non-empty string of the characters a-z.
LowercaseWord(s) == s # <<>> /\ \A i \in 1..Len(s) : is_ascii_lowercase(s[i])

\* Every Alpha component of the identifier x holds a non-empty string over a-z.
AlphasWellFormed(x) ==
    \A i \in 1..Len(x) : is_alpha(x[i]) => LowercaseWord(x[i].str)

\* C24: IdComponent::alpha(s) fails with InvalidComponent exactly when s is empty or
\* holds a character outside a-z, and otherwise gives the Alpha component holding
\* s; every Alpha component of an identifier produced by parsing, first_child and
\* any number of next_sibling (increment) steps is a non-empty string over a-z.
C24_AlphaInvariant ==
    /\ last.op = "alpha" =>
          last.res = IF LowercaseWord(last.arg) THEN Component(Alpha(last.arg))
                     ELSE Err("InvalidComponent")
    /\ AlphasWellFormed(id)
    /\ last.op \in {"parse", "first_child", "next_sibling", "parent", "from_number"} =>
          (last.res.tag = "Ok" => AlphasWellFormed(last.res.val))

\* IdComponent::alpha refused a string whose second character is outside a-z, while
\* the identifier at hand ends in the two-letter Alpha component "aa".
C24_Witness ==
    /\ last.op = "alpha"
    /\ Len(last.arg) = 2
    /\ is_ascii_lowercase(last.arg[1])
    /\ ~is_ascii_lowercase(last.arg[2])
    /\ last.res = Err("InvalidComponent")
    /\ Len(id) = 2
    /\ id[2] = Alpha(<<Char_a, Char_a>>)


\* The identifiers the ancestors of x are compared against: those at hand, the
\* listed ones and their next siblings.
AncestorCandidates(x, l) ==
    OtherIds(x)
    \cup {l[i] : i \in 1..Len(l)}
    \cup {next_sibling(l[i]).val : i \in {j \in 1..Len(l) : next_sibling(l[j]).tag = "Ok"}}

\* C25: ancestors(x) lists, from the root down to the parent, the prefix of x of
\* each depth 1 .. depth(x)-1: it is empty for a root identifier, its last element
\* is parent(x), and an identifier occurs in it exactly when is_ancestor_of says
\* it is an ancestor of x.
C25_AncestorsRootToParent ==
    last.op = "ancestors" =>
        LET x == last.arg
            l == last.res.val
        IN  /\ last.res.tag = "List"
            /\ Len(l) = depth(x) - 1
            /\ \A i \in 1..Len(l) : depth(l[i]) = i /\ StrictPrefix(l[i], x)
            /\ depth(x) = 1 <=> l = <<>>
            /\ l # <<>> => Id_parent(x) = Ok(l[Len(l)])
            /\ \A a \in AncestorCandidates(x, l) :
                  (\E i \in 1..Len(l) : l[i] = a) <=> is_ancestor_of(a, x)

\* ancestors was asked of an identifier of depth three and listed two.
C25_Witness ==
    /\ last.op = "ancestors"
    /\ depth(last.arg) = 3
    /\ Len(last.res.val) = 2
    /\ last.res.val[1] # last.res.val[2]


\* s opens with a digit and holds digits and lowercase letters only.
WellFormedText(s) ==
    /\ s # <<>>
    /\ is_ascii_digit(s[1])
    /\ \A i \in 1..Len(s) : IsIdChar(s[i])

\* s[i..j] is a numeric run of s: digits only, and no digit next to it.
IsNumericRun(s, i, j) ==
    /\ i <= j
    /\ \A k \in i..j : is_ascii_digit(s[k])
    /\ i = 1 \/ ~is_ascii_digit(s[i - 1])
    /\ j = Len(s) \/ ~is_ascii_digit(s[j + 1])

\* The values of the numeric runs of s (capped above the maximum).
RunValues(s) ==
    {DigitsValue(SubSeq(s, r[1], r[2])) :
        r \in {q \in (1..Len(s)) \X (1..Len(s)) : IsNumericRun(s, q[1], q[2])}}

\* C26: on every otherwise well-formed string with a numeric run above the u32
\* maximum, in the middle or at the end, Id::parse fails with ParseError, and the
\* value is never wrapped or truncated; with every run at most the maximum (a run
\* equal to it included) the string is accepted with the runs' values.
C26_OverflowIsParseError ==
    (last.op = "parse" /\ WellFormedText(last.arg)) =>
        IF \E v \in RunValues(last.arg) : v > U32_MAX
        THEN last.res = Err("ParseError")
        ELSE /\ last.res.tag = "Ok"
             /\ {c.num : c \in {last.res.val[k] : k \in {n \in 1..Len(last.res.val) :
                                      is_numeric(last.res.val[n])}}}
                  = RunValues(last.arg)

\* A string whose first run is above the maximum and is followed by a letter and a
\* digit was rejected with ParseError.
C26_Witness ==
    /\ last.op = "parse"
    /\ Len(last.arg) = 4
    /\ WellFormedText(last.arg)
    /\ is_ascii_digit(last.arg[2])
    /\ is_ascii_lowercase(last.arg[3])
    /\ is_ascii_digit(last.arg[4])
    /\ DigitsValue(SubSeq(last.arg, 1, 2)) > U32_MAX
    /\ last.res = Err("ParseError")


\* C27: under every match rule, separator and setting of allow_unicode, whenever
\* extract_from_filename(f) returns an identifier, the run that was parsed (the
\* capture of the first pattern that matches) is the leading run of f, its
\* maximal prefix of identifier characters of the configured class, never a
\* shorter prefix of it.
C27_MaximalRunCapture ==
    (last.op = "extract_from_filename" /\ last.res.tag = "Ok") =>
        \A i \in 1..Len(Captured(last.arg)) :
            ( /\ Captured(last.arg)[i].tag = "Ok"
              /\ \A j \in 1..(i - 1) : Captured(last.arg)[j].tag # "Ok" )
            => Captured(last.arg)[i].val = LeadingRun(last.arg)


\* Reading back the canonical string of x gives x.
ReadsBack(x) == Id_parse(to_string(x)) = Ok(x)

LetterThenDigits(s) ==
    /\ Len(s) >= 2
    /\ is_ascii_lowercase(s[1])
    /\ \A i \in 2..Len(s) : is_ascii_digit(s[i])

\* C30: parse_id_string, applied to a string that is a single run of lowercase
\* letters, returns exactly one component, the Alpha component holding the run;
\* applied to a letter followed by digits it fails.
C30_ScannerSingleAlphaRun ==
    last.op = "parse_id_string" =>
        /\ LowercaseWord(last.arg) => last.res = Ok(<<Alpha(last.arg)>>)
        /\ LetterThenDigits(last.arg) => last.res.tag = "Err"


====
